---- MODULE Spec2Model ----
(***************************************************************************)
(* GeoLib::PointVec (PointVec.cpp): the deduplicating, name-addressable    *)
(* point registry.  The constructor (makePntsUnique, correctNameIDMapping, *)
(* the id -> name index) and the two push_back overloads with uniqueInsert *)
(* are modelled on integer coordinates.  With integer coordinates a real   *)
(* tolerance t behaves exactly as the natural number floor(t), so the      *)
(* tolerance is a natural number.  C++ indices are 0-based; At(s, i) reads *)
(* the C++ element s[i].                                                   *)
(***************************************************************************)
EXTENDS Integers, Sequences, FiniteSets, TLC

\* ------------------------------------------------------------------ bounds
MaxN == 3        \* points ever handed to a registry: raw points plus push_back calls
MaxY == 2        \* y coordinates range over 0..MaxY
SizeWidth == 16  \* bits of std::size_t in the model (64 in the build)

Names == {"A", "B"}
NameOrder == <<"A", "B">>   \* std::map iterates its keys in ascending order
EmptyName == ""             \* std::string("")
NullName == "nullptr"       \* the name argument of push_back when it is null
NoPoint == <<>>             \* no point argument (the constructor call)

\* x separates points that are close in y in the lexicographic order
XCoords == {0, 1}
YCoords == 0..MaxY
ZCoords == {0}
Points == XCoords \X YCoords \X ZCoords

\* the absolute tolerances: 0 merges equal points only, 1 also neighbours
Tolerances == {0, 1}

\* ------------------------------------------------------------------ state
VARIABLES
    pc,              \* "new": constructor arguments chosen; "ready": constructed
    data_vec,        \* _data_vec: the point sequence (canonical after construction)
    name_id_map,     \* _name_id_map: name -> id
    id_to_name_map,  \* _id_to_name_map
    pnt_id_map,      \* _pnt_id_map
    aabb,            \* _aabb: [min, max] corners
    rel_eps,         \* _rel_eps: the absolute tolerance after line 41
    warnings,        \* the WARN messages of the most recent call
    points_in,       \* history: the raw points handed to the constructor
    names_in,        \* history: the name map handed to the constructor
    last_call,       \* history: the most recent call and its arguments
    n_inserts,       \* history: the number of push_back calls so far
    scan             \* the locals of makePntsUnique while it is stepped through

vars == <<pc, data_vec, name_id_map, id_to_name_map, pnt_id_map, aabb, rel_eps,
          warnings, points_in, names_in, last_call, n_inserts, scan>>

\* ---------------------------------------------------------------- helpers
At(s, i) == s[i + 1]

SetAt(s, i, v) ==
    IF i + 1 \in 1..Len(s)
    THEN SubSeq(s, 1, i) \o <<v>> \o SubSeq(s, i + 2, Len(s))
    ELSE s

Abs(a) == IF a < 0 THEN -a ELSE a

Max2(a, b) == IF a >= b THEN a ELSE b

Min2(a, b) == IF a <= b THEN a ELSE b

\* MathLib::maxNormDist: the greatest absolute coordinate-wise difference
maxNormDist(p, q) == Max2(Abs(p[1] - q[1]), Max2(Abs(p[2] - q[2]), Abs(p[3] - q[3])))

\* the order the sort utility applies to points: lexicographic by x, y, z
LexLeq(p, q) ==
    \/ p[1] < q[1]
    \/ p[1] = q[1] /\ p[2] < q[2]
    \/ p[1] = q[1] /\ p[2] = q[2] /\ p[3] <= q[3]

\* AABB(points->begin(), points->end()): min and max corner of the points
AABBOf(pnts) ==
    LET c(i) == {pnts[k][i] : k \in 1..Len(pnts)}
        lo(i) == CHOOSE m \in c(i) : \A v \in c(i) : m <= v
        hi(i) == CHOOSE m \in c(i) : \A v \in c(i) : m >= v
    IN [min |-> <<lo(1), lo(2), lo(3)>>, max |-> <<hi(1), hi(2), hi(3)>>]

\* AABB::update(pnt)
AABBUpdate(box, p) ==
    [min |-> <<Min2(box.min[1], p[1]), Min2(box.min[2], p[2]), Min2(box.min[3], p[3])>>,
     max |-> <<Max2(box.max[1], p[1]), Max2(box.max[2], p[2]), Max2(box.max[3], p[3])>>]

\* _rel_eps *= sqrt(sqrDist(min, max)): a zero diagonal gives a zero
\* tolerance; a positive diagonal scales the relative epsilon to any
\* tolerance, 'scaled' being its integer part.
AbsTolerance(box, scaled) == IF box.min = box.max THEN 0 ELSE scaled

\* std::iota(begin, end, 0) on a vector of n entries
Iota(n) == [i \in 1..n |-> i - 1]

\* the permutations of the indices in 'remaining' that put the points in
\* non-decreasing order: each starts with the index of a least point
RECURSIVE SortedPerms(_, _)
SortedPerms(pnt_vec, remaining) ==
    IF remaining = {} THEN {<<>>}
    ELSE UNION {{<<i>> \o rest : rest \in SortedPerms(pnt_vec, remaining \ {i})} :
                   i \in {j \in remaining :
                             \A m \in remaining : LexLeq(At(pnt_vec, j), At(pnt_vec, m))}}

\* BaseLib::Quicksort<Point*>(pnt_vec, 0, n, perm): every outcome of an
\* unstable sort: perm[k] is the original index of the point at sorted
\* position k, and the points are in non-decreasing order.
QuicksortResults(pnt_vec) ==
    {[pnts |-> [k \in 1..Len(pnt_vec) |-> At(pnt_vec, f[k])], perm |-> f] :
        f \in SortedPerms(pnt_vec, 0..(Len(pnt_vec) - 1))}

\* ------------------------------------------------------- makePntsUnique
\* lines 126-143: the begin/end positions of the runs of sorted neighbours
\* that are within eps of each other
RECURSIVE IdenticalPntsInterval(_, _, _, _, _)
IdenticalPntsInterval(pnt_vec, eps, k, interval, identical) ==
    IF k >= Len(pnt_vec) - 1
    THEN IF identical THEN Append(interval, Len(pnt_vec)) ELSE interval
    ELSE IF maxNormDist(At(pnt_vec, k + 1), At(pnt_vec, k)) <= eps
         THEN IdenticalPntsInterval(pnt_vec, eps, k + 1,
                  IF ~identical THEN Append(interval, k) ELSE interval, TRUE)
         ELSE IdenticalPntsInterval(pnt_vec, eps, k + 1,
                  IF identical THEN Append(interval, k + 1) ELSE interval, FALSE)

\* lines 150-152: one pass of the bubble sort over perm[beg..end)
RECURSIVE BubblePass(_, _, _)
BubblePass(perm, k, end) ==
    IF k >= end - 1 THEN perm
    ELSE BubblePass(IF At(perm, k) > At(perm, k + 1)
                    THEN SetAt(SetAt(perm, k, At(perm, k + 1)), k + 1, At(perm, k))
                    ELSE perm, k + 1, end)

\* lines 149-152: end - beg passes
RECURSIVE BubbleSortById(_, _, _, _)
BubbleSortById(perm, j, beg, end) ==
    IF j >= end THEN perm
    ELSE BubbleSortById(BubblePass(perm, beg, end), j + 1, beg, end)

\* lines 145-153: bubble sort perm (and only perm) inside every interval
RECURSIVE SortIntervalsById(_, _, _)
SortIntervalsById(perm, interval, i) ==
    IF i >= Len(interval) \div 2 THEN perm
    ELSE SortIntervalsById(
             BubbleSortById(perm, At(interval, 2 * i), At(interval, 2 * i),
                            At(interval, 2 * i + 1)),
             interval, i + 1)

\* lines 155-158: a sorted neighbour within eps takes its predecessor's id
RECURSIVE CollapseIds(_, _, _, _, _)
CollapseIds(pnt_vec, perm, eps, id_map, k) ==
    IF k >= Len(pnt_vec) - 1 THEN id_map
    ELSE CollapseIds(pnt_vec, perm, eps,
             IF maxNormDist(At(pnt_vec, k + 1), At(pnt_vec, k)) <= eps
             THEN SetAt(id_map, At(perm, k + 1), At(id_map, At(perm, k)))
             ELSE id_map,
             k + 1)

\* ReversePermutation leaving the points in sorted order
ReversePermutationSkipped(perm, pnt_vec) == pnt_vec

\* line 161: Quicksort<size_t, Point*>(perm, 0, n, pnt_vec) sorts perm
\* ascending and carries pnt_vec along: the point at position k moves to
\* position perm[k]
ReversePermutation(perm, pnt_vec) ==
    [i \in 1..Len(pnt_vec) |-> pnt_vec[CHOOSE k \in 1..Len(perm) : perm[k] = i - 1]]

\* lines 163-172: delete the points with id_map[k] < k and compact the vector
RECURSIVE RemoveDoubles(_, _, _)
RemoveDoubles(pnt_vec, id_map, k) ==
    IF k >= Len(pnt_vec) THEN <<>>
    ELSE (IF At(id_map, k) < k THEN <<>> ELSE <<At(pnt_vec, k)>>)
         \o RemoveDoubles(pnt_vec, id_map, k + 1)

\* RenumberIds with the surviving slots left at their original index
RECURSIVE RenumberIdsKeepIndex(_, _, _)
RenumberIdsKeepIndex(id_map, k, id) ==
    IF k >= Len(id_map) THEN id_map
    ELSE IF At(id_map, k) = k
         THEN RenumberIdsKeepIndex(id_map, k + 1, id + 1)
         ELSE RenumberIdsKeepIndex(SetAt(id_map, k, At(id_map, At(id_map, k))), k + 1, id)

\* lines 174-183: renumber the id mapping
RECURSIVE RenumberIds(_, _, _)
RenumberIds(id_map, k, id) ==
    IF k >= Len(id_map) THEN id_map
    ELSE IF At(id_map, k) = k
         THEN RenumberIds(SetAt(id_map, k, id), k + 1, id + 1)
         ELSE RenumberIds(SetAt(id_map, k, At(id_map, At(id_map, k))), k + 1, id)

\* PointVec::makePntsUnique for one outcome 'sorted' of the first Quicksort
makePntsUnique(sorted, eps) ==
    LET n == Len(sorted.pnts)
        interval == IdenticalPntsInterval(sorted.pnts, eps, 0, <<>>, FALSE)
        perm == SortIntervalsById(sorted.perm, interval, 0)
        id_map == CollapseIds(sorted.pnts, perm, eps, Iota(n), 0)
        restored == ReversePermutation(perm, sorted.pnts)
    IN [pnt_vec |-> RemoveDoubles(restored, id_map, 0),
        pnt_id_map |-> RenumberIds(id_map, 0, 0)]

\* -------------------------------------------------- correctNameIDMapping
\* lines 188-192: id_names[it->second] = it->first, in key order
RECURSIVE IdNames(_, _, _)
IdNames(nmap, id_names, i) ==
    IF i > Len(NameOrder) THEN id_names
    ELSE IF NameOrder[i] \in DOMAIN nmap
         THEN IdNames(nmap, SetAt(id_names, nmap[NameOrder[i]], NameOrder[i]), i + 1)
         ELSE IdNames(nmap, id_names, i + 1)

\* std::map::erase(it)
Erase(nmap, name) == [n \in (DOMAIN nmap) \ {name} |-> nmap[n]]

\* CorrectLoop without the id update of line 214
RECURSIVE CorrectLoopNoChainUpdate(_, _, _, _)
CorrectLoopNoChainUpdate(nmap, pmap, id_names, i) ==
    IF i > Len(NameOrder) THEN nmap
    ELSE LET name == NameOrder[i] IN
         IF name \notin DOMAIN nmap THEN CorrectLoopNoChainUpdate(nmap, pmap, id_names, i + 1)
         ELSE LET id == nmap[name] IN
              IF At(pmap, id) = id
              THEN CorrectLoopNoChainUpdate(nmap, pmap, id_names, i + 1)
              ELSE IF At(pmap, At(pmap, id)) = At(pmap, id)
                   THEN IF At(id_names, At(pmap, id)) # EmptyName
                        THEN CorrectLoopNoChainUpdate(Erase(nmap, name), pmap, id_names, i + 1)
                        ELSE CorrectLoopNoChainUpdate([nmap EXCEPT ![name] = At(pmap, id)],
                                                      pmap, id_names, i + 1)
                   ELSE CorrectLoopNoChainUpdate(nmap, pmap, id_names, i + 1)

\* CorrectLoop erasing every name of a removed point, whether or not the
\* representative has a name (line 204 without its test)
RECURSIVE CorrectLoopAlwaysErase(_, _, _, _)
CorrectLoopAlwaysErase(nmap, pmap, id_names, i) ==
    IF i > Len(NameOrder) THEN nmap
    ELSE LET name == NameOrder[i] IN
         IF name \notin DOMAIN nmap THEN CorrectLoopAlwaysErase(nmap, pmap, id_names, i + 1)
         ELSE LET id == nmap[name] IN
              IF At(pmap, id) = id
              THEN CorrectLoopAlwaysErase(nmap, pmap, id_names, i + 1)
              ELSE IF At(pmap, At(pmap, id)) = At(pmap, id)
                   THEN CorrectLoopAlwaysErase(Erase(nmap, name), pmap, id_names, i + 1)
                   ELSE CorrectLoopAlwaysErase([nmap EXCEPT ![name] = At(pmap, id)],
                                               pmap, id_names, i + 1)

\* lines 194-217: the loop over the name map, in key order
RECURSIVE CorrectLoop(_, _, _, _)
CorrectLoop(nmap, pmap, id_names, i) ==
    IF i > Len(NameOrder) THEN nmap
    ELSE LET name == NameOrder[i] IN
         IF name \notin DOMAIN nmap THEN CorrectLoop(nmap, pmap, id_names, i + 1)
         ELSE LET id == nmap[name] IN
              IF At(pmap, id) = id
              THEN CorrectLoop(nmap, pmap, id_names, i + 1)
              ELSE IF At(pmap, At(pmap, id)) = At(pmap, id)
                   THEN IF At(id_names, At(pmap, id)) # EmptyName
                        THEN CorrectLoop(Erase(nmap, name), pmap, id_names, i + 1)
                        ELSE CorrectLoop([nmap EXCEPT ![name] = At(pmap, id)],
                                         pmap, id_names, i + 1)
                   ELSE CorrectLoop([nmap EXCEPT ![name] = At(pmap, id)],
                                    pmap, id_names, i + 1)

\* correctNameIDMapping that leaves the name map as it was handed in
correctNameIDMappingSkipped(nmap, pmap) == nmap

\* PointVec::correctNameIDMapping
correctNameIDMapping(nmap, pmap) ==
    CorrectLoop(nmap, pmap,
                IdNames(nmap, [k \in 1..Len(pmap) |-> EmptyName], 1), 1)

\* lines 49-54: resize the inverse mapping and fetch the names, in key order
RECURSIVE FetchNames(_, _, _)
FetchNames(nmap, id_names, i) ==
    IF i > Len(NameOrder) THEN id_names
    ELSE IF NameOrder[i] \in DOMAIN nmap
         THEN FetchNames(nmap, SetAt(id_names, nmap[NameOrder[i]], NameOrder[i]), i + 1)
         ELSE FetchNames(nmap, id_names, i + 1)

\* PointVec::getItemNameByID
getItemNameByID(id) == At(id_to_name_map, id)

\* ----------------------------------------------------------- uniqueInsert
\* FindIf returning the last match instead of the first
RECURSIVE FindIfLast(_, _, _, _)
FindIfLast(vec, pnt, eps, k) ==
    IF k >= Len(vec) THEN Len(vec)
    ELSE IF FindIfLast(vec, pnt, eps, k + 1) # Len(vec)
         THEN FindIfLast(vec, pnt, eps, k + 1)
         ELSE IF maxNormDist(At(vec, k), pnt) <= eps THEN k ELSE Len(vec)

\* FindIf comparing with < instead of <=
RECURSIVE FindIfStrict(_, _, _, _)
FindIfStrict(vec, pnt, eps, k) ==
    IF k >= Len(vec) THEN Len(vec)
    ELSE IF maxNormDist(At(vec, k), pnt) < eps THEN k
         ELSE FindIfStrict(vec, pnt, eps, k + 1)

\* std::find_if over _data_vec: the position of the first point within
\* the tolerance of pnt, or the size of the vector (end())
RECURSIVE FindIf(_, _, _, _)
FindIf(vec, pnt, eps, k) ==
    IF k >= Len(vec) THEN Len(vec)
    ELSE IF maxNormDist(At(vec, k), pnt) <= eps THEN k
         ELSE FindIf(vec, pnt, eps, k + 1)

\* uniqueInsert putting a new point at the front of the vector
uniqueInsertFront(vec, box, eps, pnt) ==
    LET it == FindIf(vec, pnt, eps, 0) IN
    IF it # Len(vec)
    THEN [data_vec |-> vec, aabb |-> box, id |-> it]
    ELSE [data_vec |-> <<pnt>> \o vec, aabb |-> AABBUpdate(box, pnt), id |-> 0]

\* uniqueInsert updating the bounding box before the search
uniqueInsertBoxFirst(vec, box, eps, pnt) ==
    LET it == FindIf(vec, pnt, eps, 0) IN
    IF it # Len(vec)
    THEN [data_vec |-> vec, aabb |-> AABBUpdate(box, pnt), id |-> it]
    ELSE [data_vec |-> Append(vec, pnt), aabb |-> AABBUpdate(box, pnt),
          id |-> Len(vec)]

\* PointVec::uniqueInsert: the new _data_vec, the new _aabb, the returned id
uniqueInsert(vec, box, eps, pnt) ==
    LET it == FindIf(vec, pnt, eps, 0) IN
    IF it # Len(vec)
    THEN [data_vec |-> vec, aabb |-> box, id |-> it]
    ELSE [data_vec |-> Append(vec, pnt), aabb |-> AABBUpdate(box, pnt),
          id |-> Len(vec)]

\* ---------------------------------------------------------------- actions
NoBox == [min |-> <<>>, max |-> <<>>]

\* the locals of makePntsUnique before its first loop (lines 114-127)
NoScan == [perm |-> <<>>, identical_pnts_interval |-> <<>>, identical |-> FALSE, k |-> 0]

\* the arguments of the constructor: 1..MaxN raw points, a name map whose
\* values are indices of raw points, and a relative epsilon.  An empty point
\* sequence is not part of this specification: n_pnts_in_file - 1 wraps
\* around for it (lines 128, 156).
Init ==
    /\ pc = "new"
    /\ \E n \in 1..MaxN : data_vec \in [1..n -> Points]
    /\ \E named \in SUBSET Names : name_id_map \in [named -> 0..(Len(data_vec) - 1)]
    /\ rel_eps \in Tolerances
    /\ id_to_name_map = <<>>
    /\ pnt_id_map = <<>>
    /\ aabb = NoBox
    /\ warnings = <<>>
    /\ points_in = data_vec
    /\ names_in = name_id_map
    /\ last_call = [op |-> "none", pnt |-> NoPoint, name |-> NullName]
    /\ n_inserts = 0
    /\ scan = NoScan

\* PointVec::PointVec (lines 31-55)
Construct ==
    /\ pc = "new"
    /\ \E sorted \in QuicksortResults(data_vec),
          eps \in {AbsTolerance(AABBOf(data_vec), rel_eps)} :
         \E uniq \in {makePntsUnique(sorted, eps)} :
           \E nmap \in {correctNameIDMapping(name_id_map, uniq.pnt_id_map)} :
             /\ aabb' = AABBOf(data_vec)
             /\ rel_eps' = eps
             /\ data_vec' = uniq.pnt_vec
             /\ pnt_id_map' = uniq.pnt_id_map
             /\ warnings' = IF Len(data_vec) > Len(uniq.pnt_vec)
                            THEN <<"double points">> ELSE <<>>
             /\ name_id_map' = nmap
             /\ id_to_name_map' =
                    FetchNames(nmap, [k \in 1..Len(uniq.pnt_vec) |-> EmptyName], 1)
    /\ pc' = "ready"
    /\ last_call' = [op |-> "PointVec", pnt |-> NoPoint, name |-> NullName]
    /\ UNCHANGED <<points_in, names_in, n_inserts, scan>>

\* std::size_t PointVec::push_back(Point* pnt) (lines 60-65)
PushBack(pnt) ==
    /\ pc = "ready"
    /\ Len(points_in) + n_inserts < MaxN
    /\ LET r == uniqueInsert(data_vec, aabb, rel_eps, pnt) IN
         /\ data_vec' = r.data_vec
         /\ aabb' = r.aabb
         /\ pnt_id_map' = Append(pnt_id_map, r.id)
    /\ id_to_name_map' = Append(id_to_name_map, EmptyName)
    /\ warnings' = <<>>
    /\ last_call' = [op |-> "push_back", pnt |-> pnt, name |-> NullName]
    /\ n_inserts' = n_inserts + 1
    /\ UNCHANGED <<pc, name_id_map, rel_eps, points_in, names_in, scan>>

\* void PointVec::push_back(Point* pnt, std::string const* name) (lines 67-86)
PushBackNamed(pnt, name) ==
    /\ pc = "ready"
    /\ Len(points_in) + n_inserts < MaxN
    /\ IF name = NullName
       THEN LET r == uniqueInsert(data_vec, aabb, rel_eps, pnt) IN
              /\ data_vec' = r.data_vec
              /\ aabb' = r.aabb
              /\ pnt_id_map' = Append(pnt_id_map, r.id)
              /\ id_to_name_map' = Append(id_to_name_map, EmptyName)
              /\ warnings' = <<>>
              /\ UNCHANGED name_id_map
       ELSE IF name \in DOMAIN name_id_map
       THEN /\ id_to_name_map' = Append(id_to_name_map, EmptyName)
            /\ warnings' = <<"share name">>
            /\ UNCHANGED <<data_vec, aabb, pnt_id_map, name_id_map>>
       ELSE LET r == uniqueInsert(data_vec, aabb, rel_eps, pnt) IN
              /\ data_vec' = r.data_vec
              /\ aabb' = r.aabb
              /\ pnt_id_map' = Append(pnt_id_map, r.id)
              /\ name_id_map' = [n \in (DOMAIN name_id_map) \cup {name} |->
                                    IF n = name THEN r.id ELSE name_id_map[n]]
              /\ id_to_name_map' = Append(id_to_name_map, name)
              /\ warnings' = <<>>
    /\ last_call' = [op |-> "push_back", pnt |-> pnt, name |-> name]
    /\ n_inserts' = n_inserts + 1
    /\ UNCHANGED <<pc, rel_eps, points_in, names_in, scan>>

Next ==
    \/ Construct
    \/ \E pnt \in Points : PushBack(pnt)
    \/ \E pnt \in Points, name \in Names \cup {NullName} : PushBackNamed(pnt, name)

Spec == Init /\ [][Next]_vars

\* ------------------------------------------- makePntsUnique, step by step
\* std::size_t arithmetic: n_pnts_in_file - 1 (lines 128, 156)
SizeMinusOne(n) == (n - 1) % (2 ^ SizeWidth)

\* the outcomes of maxNormDist((*pnt_vec)[k + 1], (*pnt_vec)[k]) <= eps
\* (lines 130, 157): the comparison when both positions exist, any outcome
\* when the read is past the end of the vector
ReadsInRange(pnt_vec, k) == k + 1 < Len(pnt_vec)
CloseOutcomes(pnt_vec, k, eps) ==
    IF ReadsInRange(pnt_vec, k)
    THEN {maxNormDist(At(pnt_vec, k + 1), At(pnt_vec, k)) <= eps}
    ELSE BOOLEAN

\* the arguments of makePntsUnique: 0..MaxN points and an absolute tolerance
InitScan ==
    /\ pc = "scan_sort"
    /\ \E n \in 0..MaxN : data_vec \in [1..n -> Points]
    /\ rel_eps \in Tolerances
    /\ name_id_map = << >>
    /\ id_to_name_map = <<>>
    /\ pnt_id_map = <<>>
    /\ aabb = NoBox
    /\ warnings = <<>>
    /\ points_in = data_vec
    /\ names_in = name_id_map
    /\ last_call = [op |-> "makePntsUnique", pnt |-> NoPoint, name |-> NullName]
    /\ n_inserts = 0
    /\ scan = NoScan

ScanFrame == UNCHANGED <<name_id_map, id_to_name_map, aabb, rel_eps, warnings,
                         points_in, names_in, last_call, n_inserts>>

\* lines 114-127: iota, the first Quicksort, the locals of the first loop
ScanSort ==
    /\ pc = "scan_sort"
    /\ \E sorted \in QuicksortResults(data_vec) :
         /\ data_vec' = sorted.pnts
         /\ scan' = [NoScan EXCEPT !.perm = sorted.perm]
    /\ pnt_id_map' = Iota(Len(data_vec))
    /\ pc' = "scan_intervals"
    /\ ScanFrame

\* lines 128-140: one iteration of the interval loop
ScanIntervalStep ==
    /\ pc = "scan_intervals"
    /\ scan.k < SizeMinusOne(Len(data_vec))
    /\ scan.k < MaxN
    /\ \E close \in CloseOutcomes(data_vec, scan.k, rel_eps) :
         scan' = [scan EXCEPT
                    !.identical_pnts_interval =
                        IF close /\ ~scan.identical THEN Append(@, scan.k)
                        ELSE IF ~close /\ scan.identical THEN Append(@, scan.k + 1)
                        ELSE @,
                    !.identical = close,
                    !.k = @ + 1]
    /\ UNCHANGED <<pc, data_vec, pnt_id_map>>
    /\ ScanFrame

\* lines 128, 141-153: the interval loop ends, the intervals are closed and
\* bubble sorted by id
ScanBubble ==
    /\ pc = "scan_intervals"
    /\ ~(scan.k < SizeMinusOne(Len(data_vec)))
    /\ LET interval == IF scan.identical
                        THEN Append(scan.identical_pnts_interval, Len(data_vec))
                        ELSE scan.identical_pnts_interval
       IN scan' = [scan EXCEPT !.identical_pnts_interval = interval,
                               !.perm = SortIntervalsById(@, interval, 0),
                               !.k = 0]
    /\ pc' = "scan_collapse"
    /\ UNCHANGED <<data_vec, pnt_id_map>>
    /\ ScanFrame

\* lines 156-158: one iteration of the collapse loop
ScanCollapseStep ==
    /\ pc = "scan_collapse"
    /\ scan.k < SizeMinusOne(Len(data_vec))
    /\ scan.k < MaxN
    /\ \E close \in CloseOutcomes(data_vec, scan.k, rel_eps) :
         pnt_id_map' =
             IF close /\ ReadsInRange(data_vec, scan.k)
             THEN SetAt(pnt_id_map, At(scan.perm, scan.k + 1),
                        At(pnt_id_map, At(scan.perm, scan.k)))
             ELSE pnt_id_map
    /\ scan' = [scan EXCEPT !.k = @ + 1]
    /\ UNCHANGED <<pc, data_vec>>
    /\ ScanFrame

\* lines 156, 161-183: the collapse loop ends; reverse permutation, removal
\* and renumbering
ScanFinish ==
    /\ pc = "scan_collapse"
    /\ ~(scan.k < SizeMinusOne(Len(data_vec)))
    /\ data_vec' = RemoveDoubles(ReversePermutation(scan.perm, data_vec), pnt_id_map, 0)
    /\ pnt_id_map' = RenumberIds(pnt_id_map, 0, 0)
    /\ pc' = "scan_done"
    /\ UNCHANGED scan
    /\ ScanFrame

\* lines 130, 157: the read past the end of the vector ends the process
ScanFault ==
    /\ pc \in {"scan_intervals", "scan_collapse"}
    /\ scan.k < SizeMinusOne(Len(data_vec))
    /\ ~ReadsInRange(data_vec, scan.k)
    /\ pc' = "scan_fault"
    /\ UNCHANGED <<data_vec, pnt_id_map, scan>>
    /\ ScanFrame

NextScan ==
    \/ ScanSort
    \/ ScanIntervalStep
    \/ ScanBubble
    \/ ScanCollapseStep
    \/ ScanFinish
    \/ ScanFault

SpecScan == InitScan /\ [][NextScan]_vars

\* ------------------------------------------------------ claim vocabulary
\* the state the constructor leaves, before any push_back
Constructed == pc = "ready" /\ n_inserts = 0

Ids == 0..(Len(data_vec) - 1)

RawIdx == 0..(Len(points_in) - 1)

RawValues == {points_in[k] : k \in 1..Len(points_in)}

LexLess(p, q) == LexLeq(p, q) /\ p # q

\* the raw point values whose successor in the sorted order of the raw
\* values is farther away than the tolerance
Breaks ==
    {a \in RawValues :
        \E b \in RawValues :
            /\ LexLess(a, b)
            /\ \A c \in RawValues : LexLess(a, c) => LexLeq(b, c)
            /\ maxNormDist(a, b) > rel_eps}

\* a break of B lies between the values p and q, p before q
Separated(B, p, q) == \E a \in B : LexLeq(p, a) /\ LexLess(a, q)

\* raw points i and j are collapsed into the same canonical point: every
\* step of the sorted order between them is within the tolerance
SameGroup(B, i, j) ==
    /\ ~Separated(B, At(points_in, i), At(points_in, j))
    /\ ~Separated(B, At(points_in, j), At(points_in, i))

\* for every raw index, the lowest original index of its group
LeadersOf(B) ==
    [i \in RawIdx |->
        CHOOSE j \in RawIdx :
            SameGroup(B, i, j) /\ \A m \in RawIdx : SameGroup(B, i, m) => j <= m]


\* the raw indices that lead their group
SurvivorsOf(L) == {i \in RawIdx : L[i] = i}

\* the number of surviving original indices smaller than i
Rank(L, i) == Cardinality({s \in SurvivorsOf(L) : s < i})

\* some name maps to canonical id c
Named(c) == \E n \in DOMAIN name_id_map : name_id_map[n] = c

\* the number of canonical points the constructor left
CtorCount == Cardinality({pnt_id_map[k] : k \in 1..Len(points_in)})

\* a step that is a push_back call, and its arguments
Inserted == pc = "ready" /\ n_inserts' = n_inserts + 1

InsPnt == last_call'.pnt

InsName == last_call'.name

\* the inserted point is within the tolerance of canonical point c
WithinTol(c) == maxNormDist(At(data_vec, c), InsPnt) <= rel_eps

\* ------------------------------------------------------------------ claims
\* C1: after construction every pair of distinct canonical points has
\* max-norm distance strictly greater than the tolerance.
C1_Uniqueness ==
    Constructed =>
        \A i, j \in Ids : i # j => maxNormDist(At(data_vec, i), At(data_vec, j)) > rel_eps

\* the canonical sequence holds, in original order, the raw points at
\* the leading indices of L
KeepsLeaders(L) ==
    /\ Len(data_vec) = Cardinality(SurvivorsOf(L))
    /\ \A s \in SurvivorsOf(L) : At(data_vec, Rank(L, s)) = At(points_in, s)

\* C2: after construction the canonical sequence holds, in original order,
\* the raw point that stood at the lowest original index of each group.
C2_LowestIndexSurvives ==
    Constructed => \A B \in {Breaks} : \A L \in {LeadersOf(B)} : KeepsLeaders(L)

\* id_remap numbers the leading indices of L in order and sends every
\* other index where its leader goes
RenumberedBy(L) ==
    /\ Len(pnt_id_map) = Len(points_in)
    /\ Len(data_vec) = Cardinality(SurvivorsOf(L))
    /\ \A k \in RawIdx :
          IF L[k] = k THEN At(pnt_id_map, k) = Rank(L, k)
                      ELSE At(pnt_id_map, k) = At(pnt_id_map, L[k])
    /\ {At(pnt_id_map, k) : k \in RawIdx} = Ids

\* C3: after construction on N points id_remap has N entries; a surviving
\* index k maps to the number of surviving indices below k, a removed index
\* maps to what the lowest index of its group maps to, and the canonical
\* ids are 0..M-1.
C3_Renumbering ==
    Constructed => \A B \in {Breaks} : \A L \in {LeadersOf(B)} : RenumberedBy(L)

\* C3 witness: three raw points of which only the first two collapse
C3_Witness ==
    /\ Constructed
    /\ Len(points_in) = 3
    /\ Len(data_vec) = 2
    /\ pnt_id_map = <<0, 0, 1>>

\* C4: in every state after construction id_to_name is as long as
\* canonical_points.
C4_IdToNameSize == pc = "ready" => Len(id_to_name_map) = Len(data_vec)

\* C5: after construction on N points and K push_back calls id_remap has
\* N + K entries, each a valid index into canonical_points.
C5_RemapComplete ==
    pc = "ready" =>
        /\ Len(pnt_id_map) = Len(points_in) + n_inserts
        /\ \A k \in 1..Len(pnt_id_map) : pnt_id_map[k] \in Ids

\* C6: a push_back of a point within the tolerance of a canonical point
\* never grows canonical_points, appends exactly one entry to id_remap, and
\* that entry is the id of a canonical point within the tolerance.
C6_DuplicateInsert ==
    [][(Inserted /\ \E c \in Ids : WithinTol(c)) =>
          /\ Len(data_vec') = Len(data_vec)
          /\ Len(pnt_id_map') = Len(pnt_id_map) + 1
          /\ pnt_id_map'[Len(pnt_id_map')] \in Ids
          /\ WithinTol(pnt_id_map'[Len(pnt_id_map')])]_vars

\* the constructor's name map attaches at most one name to a raw point
OneNamePerRawPoint ==
    \A m, n \in DOMAIN names_in : names_in[m] = names_in[n] => m = n

\* C7: after construction (here from a name map with at most one name per
\* raw point) every name n left in name_to_id has
\* id_to_name[name_to_id[n]] = n, so no two names share a canonical id.
C7_NameRoundTrip ==
    (Constructed /\ OneNamePerRawPoint) =>
        \A n \in DOMAIN name_id_map : At(id_to_name_map, name_id_map[n]) = n

\* C8: push_back(point, name) with the point within the tolerance of a
\* canonical point that has a name, and name not in use: the name is not
\* added, the name mapping is unchanged and a warning is emitted.
C8_SecondNameRejected ==
    [][(/\ Inserted
        /\ InsName \in Names \ DOMAIN name_id_map
        /\ \E c \in Ids : WithinTol(c) /\ Named(c)) =>
          /\ InsName \notin DOMAIN name_id_map'
          /\ name_id_map' = name_id_map
          /\ warnings' # <<>>]_vars

\* C9 as stated: push_back(point, name) with the point within the tolerance
\* of an unnamed canonical point i and name not in use: canonical_points
\* does not grow, the id recorded is i and name -> i is added.
C9_AnyUnnamedMatch ==
    [][\A i \in Ids :
          (/\ Inserted
           /\ InsName \in Names \ DOMAIN name_id_map
           /\ WithinTol(i) /\ ~Named(i)) =>
             /\ Len(data_vec') = Len(data_vec)
             /\ pnt_id_map'[Len(pnt_id_map')] = i
             /\ InsName \in DOMAIN name_id_map'
             /\ name_id_map'[InsName] = i]_vars

\* C9 amended: the same, where i is the lowest id among the canonical
\* points within the tolerance of the point (the first match of the scan).
C9_FirstUnnamedMatch ==
    [][\A i \in Ids :
          (/\ Inserted
           /\ InsName \in Names \ DOMAIN name_id_map
           /\ WithinTol(i) /\ ~Named(i)
           /\ \A j \in Ids : j < i => ~WithinTol(j)) =>
             /\ Len(data_vec') = Len(data_vec)
             /\ Len(pnt_id_map') = Len(pnt_id_map) + 1
             /\ pnt_id_map'[Len(pnt_id_map')] = i
             /\ InsName \in DOMAIN name_id_map'
             /\ name_id_map'[InsName] = i]_vars

\* C9 witness: one push_back with a new name of a point that matched a
\* canonical point no other name maps to, after a registry of two or more
\* canonical points was constructed
C9_Witness ==
    /\ pc = "ready"
    /\ n_inserts = 1
    /\ last_call.name \in (DOMAIN name_id_map) \ (DOMAIN names_in)
    /\ Len(data_vec) = CtorCount
    /\ Len(data_vec) >= 2
    /\ Len(pnt_id_map) = Len(points_in) + 1
    /\ name_id_map[last_call.name] = pnt_id_map[Len(pnt_id_map)]
    /\ maxNormDist(At(data_vec, name_id_map[last_call.name]), last_call.pnt) <= rel_eps
    /\ \A n \in (DOMAIN name_id_map) \ {last_call.name} :
          name_id_map[n] # name_id_map[last_call.name]

\* C10: for every canonical id i, getItemNameByID(i) is non-empty iff some
\* name maps to i, and then it is a name that maps to i.
C10_ReverseIndex ==
    pc = "ready" =>
        \A i \in Ids :
            /\ (getItemNameByID(i) # EmptyName) <=> Named(i)
            /\ getItemNameByID(i) # EmptyName =>
                  /\ getItemNameByID(i) \in DOMAIN name_id_map
                  /\ name_id_map[getItemNameByID(i)] = i

\* the step is the constructor call
ConstructStep == pc = "new" /\ pc' = "ready"

\* the inserted point is within the tolerance of no canonical point
NewPoint == \A c \in Ids : ~WithinTol(c)

\* the box contains the point
InBox(box, p) == \A i \in 1..3 : box.min[i] <= p[i] /\ p[i] <= box.max[i]

\* C11: a push_back of a point within the tolerance of no canonical point,
\* whatever the name argument: the point is appended, the bounding box
\* contains it, id_remap grows by the new id; the name mapping changes only
\* if a name was supplied that was not in use.
C11_NewPointAppended ==
    [][(Inserted /\ NewPoint) =>
          /\ data_vec' = Append(data_vec, InsPnt)
          /\ InBox(aabb', InsPnt)
          /\ pnt_id_map' = Append(pnt_id_map, Len(data_vec') - 1)
          /\ (InsName \notin Names \ DOMAIN name_id_map) => name_id_map' = name_id_map]_vars

\* C12: in every state after construction every value of name_to_id is a
\* valid index into canonical_points.
C12_NameIdsValid ==
    pc = "ready" => \A n \in DOMAIN name_id_map : name_id_map[n] \in Ids

\* C12 witness: a name of a removed raw point was redirected by the
\* constructor, and a push_back added a second name
C12_Witness ==
    /\ pc = "ready"
    /\ n_inserts >= 1
    /\ Len(data_vec) < Len(points_in)
    /\ \E n \in DOMAIN names_in :
          n \in DOMAIN name_id_map /\ names_in[n] >= Len(data_vec)
    /\ last_call.name \in (DOMAIN name_id_map) \ (DOMAIN names_in)

\* the registry's size and index invariants
RegistryValid ==
    /\ Len(id_to_name_map) = Len(data_vec)
    /\ \A n \in DOMAIN name_id_map : name_id_map[n] \in Ids
    /\ \A k \in 1..Len(pnt_id_map) : pnt_id_map[k] \in Ids

\* C13: whenever the constructor drops a name and whenever push_back
\* rejects a name that is in use, a warning is emitted in that call and the
\* registry is left valid.
C13_CollisionWarned ==
    [][/\ (ConstructStep /\ DOMAIN name_id_map' # DOMAIN name_id_map) =>
             (warnings' # <<>> /\ RegistryValid')
       /\ (Inserted /\ InsName \in DOMAIN name_id_map) =>
             (warnings' # <<>> /\ RegistryValid')]_vars

\* C14: a push_back resolved as a duplicate leaves canonical_points and the
\* bounding box unchanged; the bounding box changes only when a point is
\* appended to canonical_points.
C14_DuplicateLeavesBox ==
    [][Inserted =>
          /\ (Len(data_vec') = Len(data_vec)) => (data_vec' = data_vec /\ aabb' = aabb)
          /\ (aabb' # aabb) => data_vec' = Append(data_vec, InsPnt)]_vars

\* C14 witness: a push_back of a point outside the bounding box that was
\* resolved as a duplicate of a canonical point
C14_Witness ==
    /\ pc = "ready"
    /\ n_inserts = 1
    /\ Len(pnt_id_map) = Len(points_in) + 1
    /\ Len(data_vec) = CtorCount
    /\ aabb = AABBOf(points_in)
    /\ ~InBox(aabb, last_call.pnt)

\* C15: after construction every name the reconciliation retained maps to
\* the canonical id of its original point: name_to_id[name] =
\* id_remap[original index].
C15_NameFollowsRemap ==
    Constructed =>
        \A n \in DOMAIN name_id_map :
            n \in DOMAIN names_in /\ name_id_map[n] = At(pnt_id_map, names_in[n])

\* C15 witness: a retained name of a surviving point whose id changed, and a
\* retained name of a removed point
C15_Witness ==
    /\ Constructed
    /\ \E n \in DOMAIN name_id_map :
          /\ At(pnt_id_map, names_in[n]) # names_in[n]
          /\ \A k \in RawIdx : k < names_in[n] => At(pnt_id_map, k) # At(pnt_id_map, names_in[n])
    /\ \E n \in DOMAIN name_id_map :
          \E k \in RawIdx : k < names_in[n] /\ At(pnt_id_map, k) = At(pnt_id_map, names_in[n])

\* a name was dropped only for a raw point that does not lead its group
\* and whose leader had a name in the constructor's name map
DropsOnlySecondNames(L) ==
    \A n \in (DOMAIN names_in) \ (DOMAIN name_id_map) :
        /\ L[names_in[n]] # names_in[n]
        /\ \E m \in DOMAIN names_in : names_in[m] = L[names_in[n]]

\* C16: the reconciliation drops a name only when the name's point was
\* removed as a duplicate and the representative of its group had a name in
\* the input map; a name of a surviving point is never dropped.
C16_DropOnlyDuplicateNames ==
    Constructed => \A B \in {Breaks} : \A L \in {LeadersOf(B)} : DropsOnlySecondNames(L)

\* C16 witness: the constructor dropped a name
C16_Witness == Constructed /\ DOMAIN name_id_map # DOMAIN names_in

\* every pair of distinct points of vec is farther apart than the tolerance
Unique(vec) ==
    \A i, j \in 1..Len(vec) : i # j => maxNormDist(vec[i], vec[j]) > rel_eps

\* C17: a push_back preserves uniqueness: if all pairs of canonical points
\* are farther apart than the tolerance before it, they are after it.
C17_InsertKeepsUnique ==
    [][(Inserted /\ Unique(data_vec)) => Unique(data_vec')]_vars

\* C17 witness: a push_back appended a point to a registry of two or more
\* points, and the canonical points are pairwise farther apart than the
\* tolerance
C17_Witness ==
    /\ pc = "ready"
    /\ n_inserts >= 1
    /\ Len(data_vec) > CtorCount
    /\ Len(data_vec) >= 2
    /\ rel_eps = 1
    /\ Unique(data_vec)

\* s is a prefix of t
IsPrefix(s, t) == Len(s) <= Len(t) /\ \A k \in 1..Len(s) : s[k] = t[k]

\* C18: a push_back changes, removes or reorders no element of
\* canonical_points, no entry of id_remap and no id of an entry of
\* name_to_id: it only appends.
C18_InsertOnlyAppends ==
    [][Inserted =>
          /\ IsPrefix(data_vec, data_vec')
          /\ IsPrefix(pnt_id_map, pnt_id_map')
          /\ \A n \in DOMAIN name_id_map :
                n \in DOMAIN name_id_map' /\ name_id_map'[n] = name_id_map[n]]_vars

\* C18 witness: two push_back calls, the last with a new name, appended
\* two points after a registry with a name was constructed
C18_Witness ==
    /\ pc = "ready"
    /\ n_inserts = 2
    /\ Len(data_vec) = CtorCount + 2
    /\ Len(pnt_id_map) = Len(points_in) + 2
    /\ DOMAIN names_in # {}
    /\ last_call.name \in (DOMAIN name_id_map) \ (DOMAIN names_in)

\* C19 as stated: after construction the canonical point at id_remap[k] is
\* within the tolerance of raw point k, for every original index k.
C19_CanonicalWithinTol ==
    Constructed =>
        \A k \in RawIdx :
            maxNormDist(At(data_vec, At(pnt_id_map, k)), At(points_in, k)) <= rel_eps

\* the canonical point of raw index k is a raw point of the sorted run of
\* raw point k, and within the tolerance of it when the run has at most
\* two different values
CanonicalInRun(B, k) ==
    LET c == At(data_vec, At(pnt_id_map, k))
        p == At(points_in, k)
        run == {v \in RawValues : ~Separated(B, v, p) /\ ~Separated(B, p, v)}
    IN /\ c \in run
       /\ Cardinality(run) <= 2 => maxNormDist(c, p) <= rel_eps

\* C19 amended: after construction the canonical point at id_remap[k] is a
\* raw point of the sorted run of raw point k (joined to it by sorted
\* neighbours that are pairwise within the tolerance), and it is within the
\* tolerance of raw point k when the run has at most two different values.
C19_CanonicalInRun ==
    Constructed => \A B \in {Breaks} : \A k \in RawIdx : CanonicalInRun(B, k)

\* C19 witness: a chain of three raw values collapsed into one canonical
\* point that is farther than the tolerance from one of them
C19_Witness ==
    /\ Constructed
    /\ Len(points_in) = 3
    /\ Len(data_vec) = 1
    /\ \E k \in RawIdx : maxNormDist(At(data_vec, 0), At(points_in, k)) > rel_eps

\* C20: for every input length N >= 0, N = 0 and N = 1 included, the two
\* adjacent-pair scans of makePntsUnique read positions k and k + 1 only with
\* k + 1 < N, and an empty input yields an empty canonical sequence and an
\* empty id_remap without an out-of-range access.
C20_ScansInRange ==
    /\ (/\ pc \in {"scan_intervals", "scan_collapse"}
        /\ scan.k < SizeMinusOne(Len(data_vec))) => ReadsInRange(data_vec, scan.k)
    /\ pc # "scan_fault"
    /\ (pc \in {"scan_intervals", "scan_collapse"} /\ points_in = <<>>) =>
           ~(scan.k < SizeMinusOne(0))

====
